---- MODULE Spec2Model ----
(***************************************************************************)
(* External Display Bridge (capture_bridge.cpp): the triple-buffered frame *)
(* relay, the capture thread, the main/render loop with the DX11 renderer, *)
(* and the start-up / shutdown paths of main().                            *)
(*                                                                         *)
(* Two threads are modelled, each with a program counter: the capture      *)
(* thread (cpc) runs VideoStream::captureLoop, the main thread (mpc) runs  *)
(* main() from createFullscreenWindow to the destructors after return.     *)
(* Every access to a std::atomic and every call into the capture adapter   *)
(* or the GPU is a step of its own, so that all interleavings of the two   *)
(* threads are explored.                                                   *)
(***************************************************************************)
EXTENDS Integers, FiniteSets, Sequences, TLC

\* ---------------------------------------------------------------- bounds
\* The capture adapter delivers at most MaxFrames frames in a run in which the
\* GPU and the user leave the session alone, and at most MaxUiFrames /
\* MaxFaultFrames frames in a run with key presses and window messages / with
\* failing GPU calls; after that every cap_.read fails (the loop keeps running).
MaxFrames == 4

MaxUiFrames == 2

MaxFaultFrames == 1

\* Frames delivered in a run with frames of two sizes and a window that
\* changes its size / in a run in which the user toggles vsync and the overlay.
MaxResizeFrames == 2

MaxVsyncFrames == 1

\* Consecutive failed reads are counted up to MaxSkips (the count is a record
\* of the run; cap_.read may go on failing beyond it).
MaxSkips == 2

\* ------------------------------------------------------------- constants
NSlots == 3
NoSlot == -1

Keys == {"fps", "vsync", "exit"}

Slots == 0 .. (NSlots - 1)

\* A cv::Mat slot: seq is the number of the captured frame whose pixels it
\* holds (0: the Mat is empty), torn says that cap_.read is rewriting the
\* pixels right now (a reader sees a mix of two frames), text says that
\* drawFPS has drawn the overlay string into the pixels, label is the vsync
\* state that string names ("" without a string).
\* dim names the frame size (cols x rows): 0 is 0 x 0, 1 is 1920 x 1080,
\* 2 is 1280 x 720.
EmptyMat == [seq |-> 0, dim |-> 0, torn |-> FALSE, text |-> FALSE, label |-> ""]

Mat(n, d) == [seq |-> n, dim |-> d, torn |-> FALSE, text |-> FALSE, label |-> ""]

\* The captured picture in a Mat, whatever has been drawn over it.
Picture(m) == [m EXCEPT !.text = FALSE, !.label = ""]

\* cv::Mat::empty()
empty(m) == m.seq = 0

\* GPU objects of DX11Renderer, in the order init and ensureTexture create them.
GpuRes == {"device", "ctx", "swapChain", "rtv", "vs", "ps", "sampler", "dynTex", "srv"}

\* The other handles of a session, as they appear in live: "hwnd" (the
\* window), "mmhMain" and "mmhCap" (the MMCSS registrations of the two
\* threads), "capThread" (the joinable std::thread), "cap" (the open adapter).

\* Frame sizes (cols x rows) by the name dim gives them.
FrameSize == <<<<1920, 1080>>, <<1280, 720>>>>

Size(d) == IF d = 0 THEN <<0, 0>> ELSE FrameSize[d]

\* GetSystemMetrics(SM_CXSCREEN / SM_CYSCREEN) when the window is created.
Screen == <<1280, 1024>>

\* The client sizes a WM_SIZE can announce.
SurfaceSizes == {Screen, <<1024, 768>>}

\* ------------------------------------------------- single-precision floats
\* The C++ type float (IEEE 754 binary32, round to nearest even) as the code
\* uses it in render() and as the GPU uses it for a UNORM channel: a value is
\* [m, e] and stands for m * 2^e, with m = 0 or 2^23 <= |m| < 2^24.
FHidden == 8388608

FTop == 16777216

FZero == [m |-> 0, e |-> 0]

RECURSIVE FNorm(_, _)
\* m * 2^e for 0 <= m < 2^24, which is a float as it stands.
FNorm(m, e) ==
    IF m = 0 THEN FZero
    ELSE IF m < FHidden THEN FNorm(2 * m, e - 1)
    ELSE [m |-> m, e |-> e]

\* The last step of every operation: q is the mantissa cut off after 24 bits,
\* gt / tie say that what was cut off is more than / exactly half a unit.
FRound(q, e, gt, tie) ==
    LET r == IF gt \/ (tie /\ q % 2 = 1) THEN q + 1 ELSE q
    IN  IF r = FTop THEN [m |-> FHidden, e |-> e + 1] ELSE [m |-> r, e |-> e]

RECURSIVE FPack(_, _, _, _)
\* The float nearest to (A * 2^k + R) * 2^e, for A >= 0 and 0 <= R < 2^k.
FPack(A, R, k, e) ==
    IF A >= FTop THEN FPack(A \div 2, (A % 2) * 2^k + R, k + 1, e)
    ELSE IF A < FHidden /\ k > 0
         THEN FPack(2 * A + (R \div 2^(k - 1)), R % 2^(k - 1), k - 1, e)
    ELSE IF A < FHidden THEN FNorm(A, e)
    ELSE FRound(A, e + k, 2 * R > 2^k, 2 * R = 2^k)

FNeg(x) == [m |-> -x.m, e |-> x.e]

\* (float)n for an int n
FInt(n) == IF n >= 0 THEN FNorm(n, 0) ELSE FNeg(FNorm(-n, 0))

RECURSIVE FDivStep(_, _, _, _)
\* Long division: q the quotient bits so far, r the remainder.
FDivStep(q, r, b, e) ==
    IF q >= FHidden THEN FRound(q, e, 2 * r > b, 2 * r = b)
    ELSE FDivStep(2 * q + (IF 2 * r >= b THEN 1 ELSE 0),
                  IF 2 * r >= b THEN 2 * r - b ELSE 2 * r, b, e - 1)

\* (float)a / (float)b for ints a >= 0, b > 0
FDiv(a, b) == IF a = 0 THEN FZero ELSE FDivStep(a \div b, a % b, b, 0)

\* (float)t * x for an int 0 <= t <= 4096 and a float x >= 0: the product
\* t * x.m is A * 4096 + R.
FMulInt(t, x) ==
    LET hi == x.m \div 4096
        lo == x.m % 4096
        A  == t * hi + ((t * lo) \div 4096)
        R  == (t * lo) % 4096
    IN  IF t = 0 \/ x.m = 0 THEN FZero ELSE FPack(A, R, 12, x.e)

\* x + y for x.e >= y.e, neither zero: y.m = Yq * 2^d + Yr with d = x.e - y.e.
FAddOrd(x, y) ==
    LET d  == x.e - y.e
        Yq == y.m \div 2^d
        Yr == y.m % 2^d
        A  == x.m + Yq
    IN  IF d >= 26 THEN x
        ELSE IF A >= 0 THEN FPack(A, Yr, d, y.e)
        ELSE IF Yr = 0 THEN FNeg(FPack(-A, 0, d, y.e))
        ELSE FNeg(FPack(-A - 1, 2^d - Yr, d, y.e))

FAdd(x, y) ==
    IF x.m = 0 THEN y
    ELSE IF y.m = 0 THEN x
    ELSE IF x.e >= y.e THEN FAddOrd(x, y) ELSE FAddOrd(y, x)

FSub(x, y) == FAdd(x, FNeg(y))

\* x * 0.5f
FHalf(x) == IF x.m = 0 THEN x ELSE [x EXCEPT !.e = @ - 1]

\* x < y
FLess(x, y) == FSub(x, y).m < 0

\* A min that always takes its first argument.
FMinFirst(a, b) == a

\* (std::min)(a, b): b < a ? b : a
FMin(a, b) == IF FLess(b, a) THEN b ELSE a

\* The integral part of a float x >= 0.
FTrunc(x) ==
    IF x.e >= 0 THEN x.m * 2^(x.e)
    ELSE IF x.e <= -24 THEN 0
    ELSE x.m \div 2^(-x.e)

\* DX11Renderer::render, lines 828-836: the letterboxed viewport for the
\* output size W = (winW, winH) and the texture size T = (texW, texH).
viewport(W, T) ==
    LET scaleX == FDiv(W[1], T[1])
        scaleY == FDiv(W[2], T[2])
        scale  == FMin(scaleX, scaleY)
        vpW    == FMulInt(T[1], scale)
        vpH    == FMulInt(T[2], scale)
    IN  [vpX |-> FHalf(FSub(FInt(W[1]), vpW)),
         vpY |-> FHalf(FSub(FInt(W[2]), vpH)),
         vpW |-> vpW, vpH |-> vpH]

\* The viewports of render for the output sizes and texture sizes of a
\* session, computed once for each pair.
Viewports == [W \in SurfaceSizes, d \in DOMAIN FrameSize |-> viewport(W, Size(d))]

\* No viewport has been set.
NoViewport == [vpX |-> FZero, vpY |-> FZero, vpW |-> FZero, vpH |-> FZero]

\* ------------------------------------------------------ the way of a pixel
\* 0.5f and 1.0f
FHalfOne == [m |-> FHidden, e |-> -24]

FOne == [m |-> FHidden, e |-> -23]

\* What an unsigned char holds.
Byte == 0 .. 255

\* An expansion that also puts red first (COLOR_BGR2RGBA).
cvtColor_BGR2RGBA(px) == <<px[3], px[2], px[1], 255>>

\* uploadFrame, lines 816-819: cv::cvtColor(srcRow, bgraRow, COLOR_BGR2BGRA)
\* of the pixel (B, G, R), then memcpy: the four bytes as they lie in the
\* mapped texture.
cvtColor_BGR2BGRA(px) == <<px[1], px[2], px[3], 255>>

\* The texture is DXGI_FORMAT_R8G8B8A8_UNORM (line 785): the first byte of a
\* texel is its red channel; a channel byte v reads as the float v / 255.
texel(bytes) ==
    [r |-> FDiv(bytes[1], 255), g |-> FDiv(bytes[2], 255),
     b |-> FDiv(bytes[3], 255), a |-> FDiv(bytes[4], 255)]

\* s_psCode, line 655: return float4(c.b, c.g, c.r, 1.0f);
ps_main(c) == [r |-> c.b, g |-> c.g, b |-> c.r, a |-> FOne]

\* A float channel 0 <= f <= 1 written to the R8G8B8A8_UNORM back buffer
\* (line 708): scaled by 255, 0.5f added, the fraction dropped.
unorm(f) == FTrunc(FAdd(FMulInt(255, f), FHalfOne))

target(c) == [r |-> unorm(c.r), g |-> unorm(c.g), b |-> unorm(c.b), a |-> unorm(c.a)]

\* What the collaborators do in a run: how many frames the adapter delivers
\* and of which sizes, which results the GPU calls may have, whether the
\* platform supports tearing, which keys the user presses and which window
\* messages arrive.
Scenarios ==
    { [name |-> "relay", frames |-> MaxFrames, dims |-> {1}, gpu |-> {TRUE},
       tear |-> {TRUE}, keys |-> {}, msgs |-> {"none"}],
      [name |-> "ui", frames |-> MaxUiFrames, dims |-> {1}, gpu |-> {TRUE},
       tear |-> {TRUE}, keys |-> {"fps", "exit"}, msgs |-> {"none", "WM_CLOSE", "WM_QUIT"}],
      [name |-> "fault", frames |-> MaxFaultFrames, dims |-> {1}, gpu |-> BOOLEAN,
       tear |-> {FALSE}, keys |-> {"exit"}, msgs |-> {"none"}],
      [name |-> "resize", frames |-> MaxResizeFrames, dims |-> {1, 2}, gpu |-> {TRUE},
       tear |-> {TRUE}, keys |-> {}, msgs |-> {"none", "WM_SIZE"}] }
    \cup { [name |-> "vsync", frames |-> MaxVsyncFrames, dims |-> {1}, gpu |-> {TRUE},
             tear |-> {t}, keys |-> {"fps", "vsync"}, msgs |-> {"none"}] : t \in BOOLEAN }

VARIABLES
    \* the collaborators' behaviour in this run (never changes)
    env,
    \* TripleBuffer
    bufs, latest, writing,
    \* VideoStream / capture thread
    running_, cpc, cw, cok, cmw, nread,
    \* globals
    g_running, g_showFPS, g_vsync,
    \* main thread
    mpc, framePtr, wasDown, exitCode,
    \* DX11Renderer: non-null pointers, cached texture size, texture content,
    \* tearingOk, output size (winW, winH)
    ptr, texDim, texContent, mapped, tearingOk, win,
    \* objects that exist and have not been released
    live,
    \* the world outside the program: the pixel size of the window's client
    \* area, and whether the GPU has reported the device removed
    surface, removed,
    \* history of the run (not program state): acq the GPU objects held, in the
    \* order of their acquisition, rel the objects release() released, in the
    \* order it released them, texLive the size of the texture that exists,
    \* prevDown what the poll before the last one found
    published, committed, seen, lastUp, failed, retried, presented, skips, texGen,
    acq, rel, texLive, prevDown,
    \* the computations checked on their own: a viewport, a pixel on its way
    \* from the captured frame to the back buffer
    view, pixel

relayVars == <<bufs, latest, writing>>
capVars   == <<running_, cpc, cw, cok, cmw, nread>>
flagVars  == <<g_running, g_showFPS, g_vsync>>
mainVars  == <<mpc, framePtr, wasDown, exitCode>>
dxVars    == <<ptr, texDim, texContent, mapped, tearingOk, win>>
histVars  == <<published, committed, seen, lastUp, failed, retried, presented, skips, texGen,
               acq, rel, texLive, prevDown>>
outVars   == <<surface, removed>>
pureVars  == <<view, pixel>>

vars == <<env, pureVars, outVars, relayVars, capVars, flagVars, mainVars, dxVars, live, histVars>>

\* ------------------------------------------------------------ capture thread
\* VideoStream::captureLoop, lines 617-618: thread priority and MMCSS.
C_Start ==
    /\ cpc = "start"
    /\ cpc' = "test"
    /\ live' = live \cup {"mmhCap"}
    /\ UNCHANGED <<env, pureVars, outVars, relayVars, running_, cw, cok, cmw, nread, flagVars, mainVars, dxVars, histVars>>

\* while (running_)
C_Test ==
    /\ cpc = "test"
    /\ cpc' = IF running_ THEN "load" ELSE "revert"
    /\ UNCHANGED <<env, pureVars, outVars, relayVars, running_, cw, cok, cmw, nread, flagVars, mainVars, dxVars, live, histVars>>

\* A producer that fills the slot it published last.
WriteSlotIsLatest == IF latest >= 0 THEN latest ELSE writing

\* The slot captureLoop reads the next frame into.
WriteSlot == writing

\* int w = tb_.writing.load(relaxed)
C_Load ==
    /\ cpc = "load"
    /\ cw' = WriteSlot
    /\ cpc' = "read"
    /\ UNCHANGED <<env, pureVars, outVars, relayVars, running_, cok, cmw, nread, flagVars, mainVars, dxVars, live, histVars>>

\* cap_.read(tb_.bufs[w]) is entered: from here until it returns the adapter
\* writes the pixels of bufs[cw] (a frame arrives) or is about to release the
\* Mat (the grab fails).
C_ReadBegin ==
    /\ cpc = "read"
    /\ \E d \in env.dims \cup {0} :
          /\ d # 0 => nread < env.frames
          /\ cok' = (d # 0)
          /\ bufs' = IF d # 0
                     THEN [bufs EXCEPT ![cw] = [Mat(nread + 1, d) EXCEPT !.torn = TRUE]]
                     ELSE bufs
    /\ cpc' = "reading"
    /\ UNCHANGED <<env, pureVars, outVars, latest, writing, running_, cw, cmw, nread, flagVars, mainVars, dxVars, live, histVars>>

\* cap_.read returns: the frame is complete, or the Mat has been released.
C_ReadEnd ==
    /\ cpc = "reading"
    /\ bufs' = [bufs EXCEPT ![cw] = IF cok THEN [@ EXCEPT !.torn = FALSE] ELSE EmptyMat]
    /\ nread' = IF cok THEN nread + 1 ELSE nread
    /\ skips' = IF cok THEN 0 ELSE IF skips < MaxSkips THEN skips + 1 ELSE skips
    /\ cpc' = "check"
    /\ UNCHANGED <<env, pureVars, outVars, latest, writing, running_, cw, cok, cmw, flagVars, mainVars, dxVars, live,
                   published, committed, seen, lastUp, failed, retried, presented, texGen,
                   acq, rel, texLive, prevDown>>

\* A capture loop that publishes whatever cap_.read left in the slot.
CommitsAlways(ok, m) == TRUE

\* Whether captureLoop publishes the slot: ok && !tb_.bufs[w].empty()
Commits(ok, m) == ok /\ ~empty(m)

\* if (ok && !tb_.bufs[w].empty()) tb_.commitWrite();
C_Check ==
    /\ cpc = "check"
    /\ cpc' = IF Commits(cok, bufs[cw]) THEN "commit1" ELSE "test"
    /\ UNCHANGED <<env, pureVars, outVars, relayVars, running_, cw, cok, cmw, nread, flagVars, mainVars, dxVars, live, histVars>>

\* commitWrite: int w = writing.load(relaxed)
C_Commit1 ==
    /\ cpc = "commit1"
    /\ cmw' = writing
    /\ cpc' = "commit2"
    /\ UNCHANGED <<env, pureVars, outVars, relayVars, running_, cw, cok, nread, flagVars, mainVars, dxVars, live, histVars>>

\* A commitWrite that publishes the slot after the one just written.
PublishedSlotOffByOne(w) == (w + 1) % NSlots

\* The slot commitWrite publishes.
PublishedSlot(w) == w

\* commitWrite: latest.store(w, release)
C_Commit2 ==
    /\ cpc = "commit2"
    /\ latest' = PublishedSlot(cmw)
    /\ published' = published + 1
    /\ cpc' = "commit3"
    /\ UNCHANGED <<env, pureVars, outVars, bufs, writing, running_, cw, cok, cmw, nread, flagVars, mainVars, dxVars, live,
                   committed, seen, lastUp, failed, retried, presented, skips, texGen,
                   acq, rel, texLive, prevDown>>

\* A commitWrite that counts the write slot up without wrapping round.
NextWriteSlotNoWrap(w) == w + 1

\* A commitWrite that does not advance the write slot.
NextWriteSlotStuck(w) == w

\* The slot commitWrite hands to the producer next.
NextWriteSlot(w) == (w + 1) % NSlots

\* commitWrite: writing.store((w + 1) % 3, relaxed)
C_Commit3 ==
    /\ cpc = "commit3"
    /\ writing' = NextWriteSlot(cmw)
    /\ committed' = committed + 1
    /\ cpc' = "test"
    /\ UNCHANGED <<env, pureVars, outVars, bufs, latest, running_, cw, cok, cmw, nread, flagVars, mainVars, dxVars, live,
                   published, seen, lastUp, failed, retried, presented, skips, texGen,
                   acq, rel, texLive, prevDown>>

\* if (mmh) AvRevertMmThreadCharacteristics(mmh); the thread function returns.
C_Revert ==
    /\ cpc = "revert"
    /\ live' = live \ {"mmhCap"}
    /\ cpc' = "done"
    /\ UNCHANGED <<env, pureVars, outVars, relayVars, running_, cw, cok, cmw, nread, flagVars, mainVars, dxVars, histVars>>

Capture ==
    \/ C_Start \/ C_Test \/ C_Load \/ C_ReadBegin \/ C_ReadEnd
    \/ C_Check \/ C_Commit1 \/ C_Commit2 \/ C_Commit3 \/ C_Revert

\* ------------------------------------------------------- VideoStream::stop
\* stop() is called from three places: the init-failure path of main (from
\* "f_stop"), the cleanup of main ("n_stop") and ~VideoStream ("d_stop").

\* A stop() that forgets to clear running_.
StopFlagForgotten(at, next) ==
    /\ mpc = at
    /\ mpc' = next
    /\ UNCHANGED <<env, pureVars, outVars, relayVars, capVars, flagVars, framePtr, wasDown, exitCode,
                   dxVars, live, histVars>>

\* running_ = false;
StopFlag(at, next) ==
    /\ mpc = at
    /\ running_' = FALSE
    /\ mpc' = next
    /\ UNCHANGED <<env, pureVars, outVars, relayVars, cpc, cw, cok, cmw, nread, flagVars, framePtr, wasDown, exitCode,
                   dxVars, live, histVars>>

\* A join() that returns at once (the thread detached instead of joined).
JoinedAtOnce == TRUE

\* What join() waits for.
Joined == cpc = "done"

\* if (captureThread_.joinable()) captureThread_.join();
StopJoin(at, next) ==
    /\ mpc = at
    /\ "capThread" \in live => Joined
    /\ live' = live \ {"capThread"}
    /\ mpc' = next
    /\ UNCHANGED <<env, pureVars, outVars, relayVars, capVars, flagVars, framePtr, wasDown, exitCode, dxVars, histVars>>

\* cap_.release();
StopRelease(at, next) ==
    /\ mpc = at
    /\ live' = live \ {"cap"}
    /\ mpc' = next
    /\ UNCHANGED <<env, pureVars, outVars, relayVars, capVars, flagVars, framePtr, wasDown, exitCode, dxVars, histVars>>

\* ------------------------------------------------------------ main: start-up
\* The GPU objects held, in the order they were acquired: acq without the
\* objects of S (they have been released), acq with r at its end if r was
\* obtained.
Without(seq, S) == SelectSeq(seq, LAMBDA r : r \notin S)

Acquire(seq, r, got) == IF got THEN Append(seq, r) ELSE seq

\* createFullscreenWindow + hideCursor
M_CreateWindow ==
    /\ mpc = "window"
    /\ live' = live \cup {"hwnd"}
    /\ surface' = Screen
    /\ mpc' = "initDevice"
    /\ UNCHANGED <<env, pureVars, removed, relayVars, capVars, flagVars, framePtr, wasDown, exitCode, dxVars, histVars>>

\* Where main goes when DX11Renderer::init returns false.
InitFailed == "f_stop"

\* DX11Renderer::init, lines 678-685: winW = w; winH = h; D3D11CreateDevice
M_InitDevice ==
    /\ mpc = "initDevice"
    /\ win' = surface
    /\ \E ok \in env.gpu :
          IF ok
          THEN /\ ptr' = [ptr EXCEPT !["device"] = TRUE, !["ctx"] = TRUE]
               /\ live' = live \cup {"device", "ctx"}
               /\ acq' = acq \o <<"device", "ctx">>
               /\ mpc' = "initSwap"
               /\ UNCHANGED failed
          ELSE /\ failed' = failed \cup {"device"}
               /\ mpc' = InitFailed
               /\ UNCHANGED <<ptr, live, acq>>
    /\ UNCHANGED <<env, pureVars, outVars, relayVars, capVars, flagVars, framePtr, wasDown, exitCode,
                   texDim, texContent, mapped, tearingOk,
                   published, committed, seen, lastUp, retried, presented, skips, texGen,
                   rel, texLive, prevDown>>

\* DX11Renderer::init, lines 687-724: tearing support, CreateSwapChainForHwnd
M_InitSwapChain ==
    /\ mpc = "initSwap"
    /\ \E t \in env.tear : tearingOk' = t
    /\ \E ok \in env.gpu :
          IF ok
          THEN /\ ptr' = [ptr EXCEPT !["swapChain"] = TRUE]
               /\ live' = live \cup {"swapChain"}
               /\ acq' = Append(acq, "swapChain")
               /\ mpc' = "initRTV"
               /\ UNCHANGED failed
          ELSE /\ failed' = failed \cup {"swapChain"}
               /\ mpc' = InitFailed
               /\ UNCHANGED <<ptr, live, acq>>
    /\ UNCHANGED <<env, pureVars, outVars, relayVars, capVars, flagVars, framePtr, wasDown, exitCode,
                   texDim, texContent, mapped, win,
                   published, committed, seen, lastUp, retried, presented, skips, texGen,
                   rel, texLive, prevDown>>

\* DX11Renderer::init line 726 with rebuildRTV (lines 763-773)
M_InitRTV ==
    /\ mpc = "initRTV"
    /\ \E ok \in env.gpu :
          /\ ptr' = [ptr EXCEPT !["rtv"] = ok]
          /\ live' = (live \ {r \in {"rtv"} : ptr[r]}) \cup {r \in {"rtv"} : ok}
          /\ acq' = Acquire(Without(acq, {"rtv"}), "rtv", ok)
          /\ failed' = IF ok THEN failed ELSE failed \cup {"rtv"}
          /\ mpc' = IF ok THEN "initShaders" ELSE InitFailed
    /\ UNCHANGED <<env, pureVars, outVars, relayVars, capVars, flagVars, framePtr, wasDown, exitCode,
                   texDim, texContent, mapped, tearingOk, win,
                   published, committed, seen, lastUp, retried, presented, skips, texGen,
                   rel, texLive, prevDown>>

\* What compileShaders returns: false only when a D3DCompile yields no blob;
\* the results of CreateVertexShader / CreatePixelShader are not looked at.
compileShadersOk(vsBlob, vsOk, psBlob, psOk) == vsBlob /\ psBlob

\* DX11Renderer::init line 727 with compileShaders (lines 737-761)
M_InitShaders ==
    /\ mpc = "initShaders"
    /\ \E vsBlob, vsOk, psBlob, psOk \in env.gpu :
          LET gotVs == vsBlob /\ vsOk
              gotPs == vsBlob /\ psBlob /\ psOk
          IN  /\ ptr' = [ptr EXCEPT !["vs"] = gotVs, !["ps"] = gotPs]
              /\ live' = live \cup {r \in {"vs"} : gotVs} \cup {r \in {"ps"} : gotPs}
              /\ acq' = Acquire(Acquire(acq, "vs", gotVs), "ps", gotPs)
              /\ failed' = failed \cup {r \in {"vs"} : ~gotVs}
                                  \cup {r \in {"ps"} : vsBlob /\ ~gotPs}
              /\ mpc' = IF compileShadersOk(vsBlob, vsOk, psBlob, psOk)
                        THEN "initSampler" ELSE InitFailed
    /\ UNCHANGED <<env, pureVars, outVars, relayVars, capVars, flagVars, framePtr, wasDown, exitCode,
                   texDim, texContent, mapped, tearingOk, win,
                   published, committed, seen, lastUp, retried, presented, skips, texGen,
                   rel, texLive, prevDown>>

\* DX11Renderer::init, lines 729-734: CreateSamplerState; return true
M_InitSampler ==
    /\ mpc = "initSampler"
    /\ \E ok \in env.gpu :
          /\ ptr' = [ptr EXCEPT !["sampler"] = ok]
          /\ live' = live \cup {r \in {"sampler"} : ok}
          /\ acq' = Acquire(acq, "sampler", ok)
          /\ failed' = IF ok THEN failed ELSE failed \cup {"sampler"}
          /\ mpc' = "loop"
    /\ UNCHANGED <<env, pureVars, outVars, relayVars, capVars, flagVars, framePtr, wasDown, exitCode,
                   texDim, texContent, mapped, tearingOk, win,
                   published, committed, seen, lastUp, retried, presented, skips, texGen,
                   rel, texLive, prevDown>>

\* main, line 1000: vs.stop(); allowSleep(); return 1;
M_FailStopFlag == StopFlag("f_stop", "f_join")

M_FailStopJoin == StopJoin("f_join", "f_caprel")

M_FailStopRelease == StopRelease("f_caprel", "f_ret")

M_FailReturn ==
    /\ mpc = "f_ret"
    /\ exitCode' = 1
    /\ mpc' = "d_stop"
    /\ UNCHANGED <<env, pureVars, outVars, relayVars, capVars, flagVars, framePtr, wasDown, dxVars, live, histVars>>

\* ------------------------------------------------------------ main: the loop
\* A loop that does not look at the flag.
LoopForever == TRUE

\* The condition of the main loop: g_running
LoopCondition == g_running

\* while (g_running)
M_LoopTest ==
    /\ mpc = "loop"
    /\ mpc' = IF LoopCondition THEN "pump" ELSE "release"
    /\ UNCHANGED <<env, pureVars, outVars, relayVars, capVars, flagVars, framePtr, wasDown, exitCode, dxVars, live, histVars>>

\* The message pump (lines 1011-1016) with WndProc (lines 872-883): WM_QUIT
\* and WM_CLOSE clear g_running, every other message goes to DefWindowProcW.
\* A WM_SIZE tells that the client area has got another size; nothing in
\* WndProc or main looks at it.
M_Pump ==
    /\ mpc = "pump"
    /\ \E msg \in env.msgs :
          /\ g_running' = IF msg \in {"WM_CLOSE", "WM_QUIT"} THEN FALSE ELSE g_running
          /\ IF msg = "WM_SIZE"
             THEN \E sz \in SurfaceSizes \ {surface} : surface' = sz
             ELSE surface' = surface
    /\ mpc' = "keys"
    /\ UNCHANGED <<env, pureVars, removed, relayVars, capVars, g_showFPS, g_vsync, framePtr, wasDown, exitCode,
                   dxVars, live, histVars>>

\* A poll that reports the key as long as it is down.
edgeWhileDown(isDown, was) == isDown

\* KeyState::poll: edge = isDown && !wasDown
edge(isDown, was) == isDown /\ ~was

\* Lines 1020-1022: the three polls; down is what GetAsyncKeyState reports.
M_Keys ==
    /\ mpc = "keys"
    /\ \E down \in [Keys -> BOOLEAN] :
          /\ \A k \in Keys : down[k] => k \in env.keys
          /\ g_showFPS' = IF edge(down["fps"], wasDown["fps"]) THEN ~g_showFPS ELSE g_showFPS
          /\ g_vsync' = IF edge(down["vsync"], wasDown["vsync"]) THEN ~g_vsync ELSE g_vsync
          /\ g_running' = IF edge(down["exit"], wasDown["exit"]) THEN FALSE ELSE g_running
          /\ wasDown' = down
    /\ prevDown' = wasDown
    /\ mpc' = "read"
    /\ UNCHANGED <<env, pureVars, outVars, relayVars, capVars, framePtr, exitCode, dxVars, live,
                   published, committed, seen, lastUp, failed, retried, presented, skips, texGen,
                   acq, rel, texLive>>

\* A tryRead that hands out the slot after the latest one.
tryReadStale == IF latest >= 0 THEN (latest + 1) % NSlots ELSE NoSlot

\* TripleBuffer::tryRead: idx = latest.load(acquire); idx >= 0 ? &bufs[idx] : nullptr
tryRead == IF latest >= 0 THEN latest ELSE NoSlot

\* cv::Mat* framePtr = tb.tryRead();  seen records the number of the frame in
\* the slot and how far the producer had got when latest was loaded.
M_TryRead ==
    /\ mpc = "read"
    /\ framePtr' = tryRead
    /\ seen' = [seq |-> IF tryRead = NoSlot THEN 0 ELSE bufs[tryRead].seq,
                pub |-> published, com |-> committed]
    /\ mpc' = "chk"
    /\ UNCHANGED <<env, pureVars, outVars, relayVars, capVars, flagVars, wasDown, exitCode, dxVars, live,
                   published, committed, lastUp, failed, retried, presented, skips, texGen,
                   acq, rel, texLive, prevDown>>

\* A main loop that also skips a frame it has uploaded before.
NoFrameOrSame ==
    \/ framePtr = NoSlot
    \/ empty(bufs[framePtr])
    \/ (framePtr = lastUp.slot /\ seen.seq = lastUp.mat.seq)

\* !framePtr || framePtr->empty()
NoFrame == framePtr = NoSlot \/ empty(bufs[framePtr])

\* if (!framePtr || framePtr->empty()) { Sleep(1); continue; }
M_CheckEmpty ==
    /\ mpc = "chk"
    /\ mpc' = IF NoFrame THEN "loop" ELSE "draw"
    /\ UNCHANGED <<env, pureVars, outVars, relayVars, capVars, flagVars, framePtr, wasDown, exitCode, dxVars, live, histVars>>

\* A main loop that draws the overlay whatever the flag says.
OverlayAlways == TRUE

\* Whether the main loop calls drawFPS.
OverlayOn == g_showFPS

\* drawFPS: nothing on an empty frame, else cv::putText into the frame itself
\* of a string that names the fps figure, the codec and the vsync state.
drawFPS(m) ==
    IF empty(m) THEN m
    ELSE [m EXCEPT !.text = TRUE,
                   !.label = IF g_vsync THEN "VSync ON" ELSE "VSync OFF"]

\* Lines 1028-1035: the fps figure, then if (g_showFPS) drawFPS(framePtr, ...)
M_Draw ==
    /\ mpc = "draw"
    /\ bufs' = IF OverlayOn THEN [bufs EXCEPT ![framePtr] = drawFPS(@)] ELSE bufs
    /\ mpc' = "upload"
    /\ UNCHANGED <<env, pureVars, outVars, latest, writing, capVars, flagVars, framePtr, wasDown, exitCode, dxVars,
                   live, histVars>>

\* An ensureTexture that takes every size for the cached one.
sameSizeAlways(tw, th, w, h) == TRUE

\* ensureTexture, line 777: texW == w && texH == h
sameSize(tw, th, w, h) == tw = w /\ th = h

\* An ensureTexture that leaves the old view in place when it has to make a
\* new texture.
srvKept(old, made, srvOk) == old \/ (made /\ srvOk)

\* ensureTexture, lines 779 and 795, for a size that is not the cached one:
\* the old view is released, and there is a view again if the texture was
\* made and CreateShaderResourceView gave one.
srvAfter(old, made, srvOk) == made /\ srvOk

\* DX11Renderer::uploadFrame up to Map (lines 801-805), with ensureTexture
\* (lines 775-797) for the size d of the frame.
M_Upload ==
    /\ mpc = "upload"
    /\ lastUp' = [slot |-> framePtr, mat |-> bufs[framePtr], pub |-> seen.pub,
                  com |-> seen.com]
    /\ \E texOk, srvOk, mapOk \in env.gpu :
          LET d      == bufs[framePtr].dim
              same   == sameSize(Size(texDim)[1], Size(texDim)[2], Size(d)[1], Size(d)[2])
              made   == ~same /\ texOk /\ d # 0
              hasTex == IF same THEN ptr["dynTex"] ELSE made
              hasSrv == IF same THEN ptr["srv"] ELSE srvAfter(ptr["srv"], made, srvOk)
          IN  /\ ptr' = [ptr EXCEPT !["dynTex"] = hasTex, !["srv"] = hasSrv]
              /\ live' = IF same THEN live
                         ELSE (live \ {"dynTex", "srv"})
                                  \cup {r \in {"dynTex"} : hasTex} \cup {r \in {"srv"} : hasSrv}
              /\ texDim' = IF made THEN d ELSE texDim
              /\ texGen' = IF made THEN texGen + 1 ELSE texGen
              /\ texLive' = IF same THEN texLive ELSE IF made THEN d ELSE 0
              /\ acq' = IF same THEN acq
                        ELSE Acquire(Acquire(Without(acq, {"dynTex", "srv"}),
                                             "dynTex", hasTex), "srv", hasSrv)
              /\ texContent' = IF same THEN texContent ELSE EmptyMat
              /\ failed' = IF same THEN failed
                           ELSE failed \cup {r \in {"dynTex"} : ~made}
                                       \cup {r \in {"srv"} : made /\ ~srvOk}
              /\ retried' = (retried \/ (~same /\ "dynTex" \in failed))
              /\ mapped' = (hasTex /\ mapOk)
              /\ mpc' = IF hasTex /\ mapOk THEN "copy" ELSE "render"
    /\ UNCHANGED <<env, pureVars, outVars, relayVars, capVars, flagVars, framePtr, wasDown, exitCode,
                   tearingOk, win,
                   published, committed, seen, presented, skips, rel, prevDown>>

\* uploadFrame, lines 807-821: the rows are copied out of the frame, Unmap.
M_Copy ==
    /\ mpc = "copy"
    /\ texContent' = bufs[framePtr]
    /\ mapped' = FALSE
    /\ mpc' = "render"
    /\ UNCHANGED <<env, pureVars, outVars, relayVars, capVars, flagVars, framePtr, wasDown, exitCode, ptr, texDim,
                   tearingOk, win, live, histVars>>

\* A render that asks for tearing whenever the platform supports it.
presentArgsTearAlways(vsync, tearing) ==
    [sync |-> IF vsync THEN 1 ELSE 0, tear |-> tearing]

\* DX11Renderer::render, lines 851-853: Present(vsync ? 1 : 0, flags)
presentArgs(vsync, tearing) ==
    [sync |-> IF vsync THEN 1 ELSE 0, tear |-> (~vsync /\ tearing)]

\* DX11Renderer::render: nothing without a view, else the viewport from
\* (winW, winH) and (texW, texH), the draw, and Present, whose result (it may
\* report the device removed) is dropped.
M_Render ==
    /\ mpc = "render"
    /\ IF ptr["srv"]
       THEN /\ presented' = [mat |-> texContent, dim |-> texDim,
                             vp |-> Viewports[win, texDim],
                             args |-> presentArgs(g_vsync, tearingOk)]
            /\ \E ok \in env.gpu : removed' = (removed \/ ~ok)
       ELSE UNCHANGED <<presented, removed>>
    /\ mpc' = "loop"
    /\ UNCHANGED <<env, pureVars, surface, relayVars, capVars, flagVars, framePtr, wasDown, exitCode, dxVars, live,
                   published, committed, seen, lastUp, failed, retried, skips, texGen,
                   acq, rel, texLive, prevDown>>

\* ----------------------------------------------------------- main: shutdown
\* The order in which release() goes through the pointers (lines 858-866).
ReleaseOrder == <<"sampler", "srv", "dynTex", "ps", "vs", "rtv", "swapChain", "ctx", "device">>

\* DX11Renderer::release: every non-null pointer is released, in ReleaseOrder.
M_Release ==
    /\ mpc = "release"
    /\ live' = live \ {r \in GpuRes : ptr[r]}
    /\ rel' = SelectSeq(ReleaseOrder, LAMBDA r : ptr[r])
    /\ mpc' = "n_stop"
    /\ UNCHANGED <<env, pureVars, outVars, relayVars, capVars, flagVars, framePtr, wasDown, exitCode, dxVars,
                   published, committed, seen, lastUp, failed, retried, presented, skips, texGen,
                   acq, texLive, prevDown>>

M_StopFlag == StopFlag("n_stop", "n_join")

M_StopJoin == StopJoin("n_join", "n_caprel")

M_StopRelease == StopRelease("n_caprel", "destroy")

\* Lines 1044-1051: DestroyWindow, showCursor, allowSleep, MMCSS revert, return 0.
M_Destroy ==
    /\ mpc = "destroy"
    /\ live' = live \ {"hwnd", "mmhMain"}
    /\ exitCode' = 0
    /\ mpc' = "d_stop"
    /\ UNCHANGED <<env, pureVars, outVars, relayVars, capVars, flagVars, framePtr, wasDown, dxVars, histVars>>

\* ~VideoStream() { stop(); } runs when main returns.
M_DtorStopFlag == StopFlag("d_stop", "d_join")

M_DtorStopJoin == StopJoin("d_join", "d_caprel")

M_DtorStopRelease == StopRelease("d_caprel", "done")

Main ==
    \/ M_CreateWindow \/ M_InitDevice \/ M_InitSwapChain \/ M_InitRTV
    \/ M_InitShaders \/ M_InitSampler
    \/ M_FailStopFlag \/ M_FailStopJoin \/ M_FailStopRelease \/ M_FailReturn
    \/ M_LoopTest \/ M_Pump \/ M_Keys \/ M_TryRead \/ M_CheckEmpty
    \/ M_Draw \/ M_Upload \/ M_Copy \/ M_Render
    \/ M_Release \/ M_StopFlag \/ M_StopJoin \/ M_StopRelease \/ M_Destroy
    \/ M_DtorStopFlag \/ M_DtorStopJoin \/ M_DtorStopRelease

\* ------------------------------------------------------------ specification
\* The state when main reaches createFullscreenWindow: the TripleBuffer is
\* constructed, VideoStream has opened the adapter and started its thread,
\* main has registered with MMCSS.
SessionInit ==
    /\ env \in Scenarios
    /\ bufs = [s \in Slots |-> EmptyMat]
    /\ latest = NoSlot
    /\ writing = 0
    /\ running_ = TRUE
    /\ cpc = "start"
    /\ cw = 0
    /\ cok = FALSE
    /\ cmw = 0
    /\ nread = 0
    /\ g_running = TRUE
    /\ g_showFPS = FALSE
    /\ g_vsync = FALSE
    /\ mpc = "window"
    /\ framePtr = NoSlot
    /\ wasDown = [k \in Keys |-> FALSE]
    /\ exitCode = -1
    /\ ptr = [r \in GpuRes |-> FALSE]
    /\ texDim = 0
    /\ texContent = EmptyMat
    /\ mapped = FALSE
    /\ tearingOk = FALSE
    /\ live = {"mmhMain", "capThread", "cap"}
    /\ published = 0
    /\ committed = 0
    /\ seen = [seq |-> 0, pub |-> 0, com |-> 0]
    /\ lastUp = [slot |-> NoSlot, mat |-> EmptyMat, pub |-> 0, com |-> 0]
    /\ failed = {}
    /\ retried = FALSE
    /\ presented = [mat |-> EmptyMat, dim |-> 0, vp |-> NoViewport,
                    args |-> presentArgs(FALSE, FALSE)]
    /\ skips = 0
    /\ texGen = 0
    /\ acq = <<>>
    /\ rel = <<>>
    /\ texLive = 0
    /\ prevDown = [k \in Keys |-> FALSE]
    /\ win = <<0, 0>>
    /\ surface = <<0, 0>>
    /\ removed = FALSE

\* No viewport / no pixel is being computed on its own.
NoView == [win |-> <<0, 0>>, tex |-> <<0, 0>>, vp |-> NoViewport, done |-> FALSE]

NoPixel == [stage |-> "none", src |-> <<0, 0, 0>>, val |-> <<>>]

Init ==
    /\ SessionInit
    /\ view = NoView
    /\ pixel = NoPixel

Next == Capture \/ Main

Spec == Init /\ [][Next]_vars

\* Both threads keep being scheduled, and every call into the capture adapter
\* or the GPU returns.
FairSpec == Spec /\ WF_vars(Main) /\ WF_vars(Capture)

\* ------------------------------------------------- render's viewport alone
\* Widths and heights of output surfaces and of textures.
Extents == {1, 450, 480, 600, 720, 800, 1024, 1080, 1280, 1366, 1920, 4096}

Sizes == Extents \X Extents

\* render() is about to run with some output size and some texture size.
ViewInit ==
    /\ SessionInit
    /\ env.name = "relay"
    /\ pixel = NoPixel
    /\ view \in {[win |-> w, tex |-> t, vp |-> NoViewport, done |-> FALSE] :
                    w \in Sizes, t \in Sizes}

\* DX11Renderer::render, lines 828-837
V_Render ==
    /\ ~view.done
    /\ view' = [view EXCEPT !.vp = viewport(view.win, view.tex), !.done = TRUE]
    /\ UNCHANGED <<env, pixel, outVars, relayVars, capVars, flagVars, mainVars, dxVars, live, histVars>>

ViewNext == V_Render

ViewSpec == ViewInit /\ [][ViewNext]_vars

\* --------------------------------------------- one pixel, frame to back buffer
\* The source pixels (B, G, R): every value of each channel.
PixelInputs ==
    {<<v, 20, 30>> : v \in Byte} \cup {<<10, v, 30>> : v \in Byte}
        \cup {<<10, 20, v>> : v \in Byte}

PixelInit ==
    /\ SessionInit
    /\ env.name = "relay"
    /\ view = NoView
    /\ pixel \in {[stage |-> "frame", src |-> px, val |-> px] : px \in PixelInputs}

PixelStep(from, to, v) ==
    /\ pixel.stage = from
    /\ pixel' = [pixel EXCEPT !.stage = to, !.val = v]
    /\ UNCHANGED <<env, view, outVars, relayVars, capVars, flagVars, mainVars, dxVars, live, histVars>>

\* uploadFrame: the pixel is expanded and copied into the texture.
P_Upload == PixelStep("frame", "texture", cvtColor_BGR2BGRA(pixel.val))

\* tex.Sample(sam, i.uv) with the point sampler of lines 729-732.
P_Sample == PixelStep("texture", "sampled", texel(pixel.val))

P_Shade == PixelStep("sampled", "shaded", ps_main(pixel.val))

\* The output merger writes the colour to the back buffer.
P_Write == PixelStep("shaded", "target", target(pixel.val))

PixelNext == P_Upload \/ P_Sample \/ P_Shade \/ P_Write

PixelSpec == PixelInit /\ [][PixelNext]_vars

\* ------------------------------------------------------------------ claims
\* The main thread holds a frame pointer it obtained from tryRead and is still
\* going to look at the frame (empty(), drawFPS, uploadFrame).
UsingFrame == mpc \in {"chk", "draw", "upload", "copy"} /\ framePtr # NoSlot

\* The capture thread is inside cap_.read on slot s.
ReadingInto(s) == cpc = "reading" /\ cw = s

\* C1: while the main loop uses the slot it got from tryRead(), the capture
\* thread is not inside cap_.read on that same slot.
C1_NoTornFrame == ~(UsingFrame /\ ReadingInto(framePtr))

\* A step of the main thread from pc a.
MainStep(a) == mpc = a /\ mpc' # a

\* C2: a tryRead() that starts after the k-th commitWrite() has completed
\* returns a slot (never 'none') that holds, complete, the frame of the k-th
\* publish or of a later one; the frame numbers successive tryRead() calls
\* see never decrease.
C2_Freshness ==
    [][MainStep("read") =>
          /\ committed >= 1 => framePtr' # NoSlot
          /\ framePtr' # NoSlot => ~bufs[framePtr'].torn
          /\ seen'.seq >= committed
          /\ seen'.seq >= seen.seq]_vars

\* C2 witness: the third commitWrite has completed and a tryRead() after it
\* returned slot 2 with frame 3, having returned an older frame before.
C2_Witness ==
    /\ mpc = "chk"
    /\ committed = 3
    /\ framePtr = 2
    /\ seen.seq = 3
    /\ seen.com = 3
    /\ lastUp.mat.seq \in {1, 2}

\* C3: writing # latest in every reachable state, the states between the two
\* stores of commitWrite included.
C3_WriteNeverLatest == writing # latest

\* Slot s holds a published frame and the producer has not taken the slot back
\* as its write slot: from latest.store(s) to the writing.store that makes s
\* the write slot again.
Protected(s) ==
    /\ ~empty(bufs[s])
    /\ ~bufs[s].torn
    /\ bufs[s].seq <= published
    /\ writing # s \/ (cpc = "commit3" /\ latest = s)

\* C4 as claimed: no step of either thread changes the content of a published
\* slot before the producer takes the slot back.
C4_PublishedNeverModified ==
    [][\A s \in Slots : Protected(s) => bufs'[s] = bufs[s]]_vars

\* C4 as amended: the producer never changes a published slot before it takes
\* the slot back; the main loop changes one only in drawFPS, with the overlay
\* flag on, on the slot tryRead() returned, and only by drawing the overlay
\* text into it; with the flag off the main loop only reads.
C4_OnlyOverlayModifies ==
    [][\A s \in Slots :
          (Protected(s) /\ bufs'[s] # bufs[s]) =>
              /\ MainStep("draw")
              /\ g_showFPS
              /\ s = framePtr
              /\ Picture(bufs'[s]) = Picture(bufs[s])
              /\ bufs'[s].text]_vars

\* C4 witness: the latest published slot carries the overlay text.
C4_Witness ==
    /\ latest # NoSlot
    /\ Protected(latest)
    /\ bufs[latest].text
    /\ mpc = "upload"
    /\ framePtr = latest

\* C5: the producer never waits for the consumer (while the capture thread
\* lives, its next step is enabled whatever the main thread does), the relay
\* holds exactly 3 slots, and a tryRead() that returns a frame returns the
\* most recently published one: a frame that was superseded before the
\* consumer sampled it is never handed out.
C5_WaitFreeNoQueue ==
    /\ [](cpc # "done" => ENABLED Capture)
    /\ [](DOMAIN bufs = Slots /\ Cardinality(DOMAIN bufs) = 3)
    /\ [][MainStep("read") /\ framePtr' # NoSlot => seen'.seq = published]_vars

\* C5 witness: the consumer sampled frame 1, then frame 3: frame 2 was
\* published and superseded in between and is gone.
C5_Witness ==
    /\ mpc = "chk"
    /\ seen.seq = 3
    /\ lastUp.mat.seq = 1
    /\ texContent.seq = 1

\* VideoStream::stop has returned (in whichever of its three callers).
StopReturned == mpc \in {"f_ret", "destroy", "d_stop", "d_join", "d_caprel", "done"}

\* The capture thread can still reach cap_.read.
CaptureAlive == cpc # "done"

\* C6: cap_.release() runs only after the capture thread has exited, and
\* stop() does not return before the thread has terminated.
C6_ReleaseAfterJoin ==
    /\ "cap" \notin live => ~CaptureAlive
    /\ StopReturned => ~CaptureAlive
    /\ StopReturned => "cap" \notin live /\ "capThread" \notin live

\* C6 witness: the stop() of the cleanup has just released the adapter, the
\* capture thread having published frames before it was joined.
C6_Witness ==
    /\ mpc = "destroy"
    /\ "cap" \notin live
    /\ cpc = "done"
    /\ published >= 1

\* The main thread is inside while (g_running) { ... }.
InLoop == mpc \in {"loop", "pump", "keys", "read", "chk", "draw", "upload", "copy", "render"}

\* The main loop has been left.
LoopExited ==
    mpc \in {"release", "n_stop", "n_join", "n_caprel", "destroy",
             "d_stop", "d_join", "d_caprel", "done"}

\* C7 as claimed: the capture loop observes the flag the stop request clears
\* (g_running): once it is cleared, the next loop test of the capture thread
\* leaves the loop.
C7_SameFlag ==
    [][(~g_running /\ cpc = "test" /\ cpc' # "test") => cpc' = "revert"]_vars

\* C7 as amended: a stop request clears g_running, which only the main loop
\* observes; the capture loop observes running_, which stop() clears after
\* the main loop has exited; with both threads scheduled and every pending
\* capture read returning, both loops eventually exit.
C7_BothLoopsExit ==
    /\ [][(cpc = "test" /\ cpc' = "revert") => (~running_ /\ ~InLoop)]_vars
    /\ [][(mpc = "loop" /\ mpc' = "release") => ~g_running]_vars
    /\ (~g_running) ~> (LoopExited /\ cpc = "done")

\* C7 witness: after a stop request both loops have exited and main returned 0.
C7_Witness ==
    /\ ~g_running
    /\ mpc = "done"
    /\ cpc = "done"
    /\ exitCode = 0
    /\ published >= 1

\* C8: when the session has ended, nothing that was acquired is still held.
C8_NoLeak == mpc = "done" => live = {}

\* The session is ending: main is on its way out after a failed init.
SessionFailing == mpc \in {"f_stop", "f_join", "f_caprel", "f_ret", "d_stop", "d_join", "d_caprel", "done"}

\* C9: once the creation of a GPU resource has failed, the session ends (main
\* is on the init-failure path) and no creation is attempted again.
C9_CreationFailureFatal ==
    /\ failed # {} => SessionFailing /\ exitCode \in {-1, 1}
    /\ ~retried

\* No part of a commitWrite has run since the tryRead() of this iteration, and
\* none is in progress.
QuietIteration ==
    /\ published >= 1
    /\ seen.pub = published
    /\ seen.com = committed
    /\ published = committed

\* The same holds since the tryRead() of the previous iteration that reached
\* uploadFrame: the capture loop has published nothing over both iterations.
QuietSinceUpload ==
    /\ QuietIteration
    /\ lastUp.slot # NoSlot
    /\ lastUp.pub = published
    /\ lastUp.com = committed

\* Without a publish the relay does not change.
RelayUnchanged ==
    (published' = published /\ committed' = committed) =>
        (latest' = latest /\ writing' = writing /\ DOMAIN bufs' = Slots)

\* C10 as claimed: an iteration during which the capture loop publishes
\* nothing reaches uploadFrame, with the latest slot holding exactly the last
\* published frame; if nothing was published since the previous iteration
\* either, it is the same slot with the same content; latest and writing do
\* not change without a publish.
C10_SameFrameAgain ==
    /\ [][(MainStep("chk") /\ QuietIteration) => mpc' = "draw"]_vars
    /\ [][(MainStep("upload") /\ QuietIteration) =>
             /\ framePtr = latest
             /\ bufs[framePtr] = Mat(published, bufs[framePtr].dim)]_vars
    /\ [][(MainStep("upload") /\ QuietSinceUpload) =>
             /\ framePtr = lastUp.slot
             /\ bufs[framePtr] = lastUp.mat]_vars
    /\ [][RelayUnchanged]_vars

\* C10 as amended: such an iteration reaches uploadFrame and passes it the
\* latest slot, the same slot as the iteration before; the producer has not
\* touched it, so it holds the last published frame, complete, changed only
\* by the overlay text that drawFPS draws into it when the overlay flag is on
\* (in this iteration or an earlier one); latest and writing do not change
\* without a publish.
C10_SameSlotAgain ==
    /\ [][(MainStep("chk") /\ QuietIteration) => mpc' = "draw"]_vars
    /\ [][(MainStep("upload") /\ QuietIteration) =>
             /\ framePtr = latest
             /\ Picture(bufs[framePtr]) = Mat(published, bufs[framePtr].dim)]_vars
    /\ [][(MainStep("upload") /\ QuietSinceUpload) =>
             /\ framePtr = lastUp.slot
             /\ Picture(bufs[framePtr]) = Picture(lastUp.mat)
             /\ bufs[framePtr].text = (lastUp.mat.text \/ g_showFPS)]_vars
    /\ [][RelayUnchanged]_vars

\* C10 witness: the frame uploaded in the previous iteration (now the texture
\* content) and the frame just passed to uploadFrame are the same published
\* frame in the same slot, nothing having been published in between; the
\* overlay was switched on between the two.
C10_Witness ==
    /\ mpc = "copy"
    /\ texContent.seq = lastUp.mat.seq
    /\ lastUp.mat.seq = published
    /\ lastUp.pub = published
    /\ lastUp.com = committed
    /\ published = committed
    /\ lastUp.slot = latest
    /\ ~texContent.text
    /\ lastUp.mat.text

\* tryRead() has returned the slot and the frame that the previous iteration
\* passed to uploadFrame.
SameFrameAgain ==
    /\ framePtr # NoSlot
    /\ framePtr = lastUp.slot
    /\ seen.seq = lastUp.mat.seq

\* The main thread is at tryRead() or at the test of what it returned, and its
\* step there can be taken whatever the capture thread is doing.
NeverWaitsForFrame == mpc \in {"read", "chk"} => ENABLED (M_TryRead \/ M_CheckEmpty)

\* C11 as claimed: the main loop never waits for the producer, and it takes
\* the yield path (Sleep(1); continue) when tryRead() returns 'none' and also
\* when it returns the same frame as in the previous iteration.
C11_YieldsOnNoneOrSame ==
    /\ []NeverWaitsForFrame
    /\ [][(MainStep("chk") /\ (framePtr = NoSlot \/ SameFrameAgain)) => mpc' = "loop"]_vars

\* C11 as amended: the main loop never waits for the producer; it takes the
\* yield path exactly when tryRead() returns 'none' or an empty frame; when
\* tryRead() returns the same frame as in the previous iteration it does not
\* yield but goes on to upload and render that frame again.
C11_YieldsOnNoneOnly ==
    /\ []NeverWaitsForFrame
    /\ [][MainStep("chk") =>
             (mpc' = "loop" <=> (framePtr = NoSlot \/ empty(bufs[framePtr])))]_vars
    /\ [][(MainStep("chk") /\ SameFrameAgain /\ ~empty(bufs[framePtr])) => mpc' = "draw"]_vars
    /\ [][(MainStep("chk") /\ framePtr = NoSlot) =>
             (mpc' = "loop" /\ UNCHANGED <<relayVars, capVars, dxVars, live>>)]_vars

\* C11 witness: the main loop has passed the check with the frame it uploaded
\* in the previous iteration, nothing having been published since.
C11_Witness ==
    /\ mpc = "draw"
    /\ SameFrameAgain
    /\ lastUp.pub = published
    /\ seen.pub = published
    /\ published = committed

\* The capture loop is at its test of what cap_.read returned, and the read
\* failed or left the slot empty.
ReadFailed == cpc = "check" /\ ~(cok /\ ~empty(bufs[cw]))

\* C12: a failed or empty capture read is absorbed by the producer: the loop
\* goes back to its test with latest and writing unchanged and nothing
\* published, nothing the main loop looks at (the two flags, the frame pointer)
\* is touched, and the next iteration reads into the same write slot; this
\* does not depend on how many reads have failed in a row: the capture loop is
\* left only when stop() has cleared running_, the main loop only on a stop
\* request, and while nothing has been published latest stays 'none'.
C12_FailedReadAbsorbed ==
    /\ [][(ReadFailed /\ cpc' # cpc) =>
             /\ cpc' = "test"
             /\ UNCHANGED <<latest, writing, published, committed>>
             /\ UNCHANGED <<g_running, running_, framePtr, mpc, exitCode>>]_vars
    /\ [][(cpc = "load" /\ cpc' # cpc /\ skips >= 1) => (cpc' = "read" /\ cw' = cw)]_vars
    /\ [][(cpc = "test" /\ cpc' = "revert") => ~running_]_vars
    /\ [][running_' # running_ => mpc \in {"f_stop", "n_stop", "d_stop"}]_vars
    /\ [][g_running' # g_running => mpc \in {"pump", "keys"}]_vars
    /\ [](published = 0 => (latest = NoSlot /\ writing = 0))

\* C12 witness: the adapter has failed MaxSkips times in a row and has never
\* delivered a frame; the capture loop is about to read into slot 0 again and
\* the main loop, still running, has just got 'none' from tryRead().
C12_Witness ==
    /\ skips = MaxSkips
    /\ nread = 0
    /\ published = 0
    /\ latest = NoSlot
    /\ cpc = "read"
    /\ cw = 0
    /\ running_
    /\ g_running
    /\ mpc = "chk"
    /\ framePtr = NoSlot

\* The frame passed to uploadFrame has another size than the cached one.
SizeDiffers == Size(bufs[framePtr].dim) # Size(texDim)

\* C13: uploadFrame leaves the texture and its view alone when the frame has
\* the cached size (texW, texH); when it has another size the old texture and
\* view are released and a new texture is created (a new allocation, its
\* content undefined) unless the GPU refuses; whenever a texture exists after
\* uploadFrame the cached size is the size of the frame, and the render that
\* follows computes its viewport from that size.
C13_RecreateOnSizeChange ==
    /\ [][MainStep("upload") =>
             IF SizeDiffers
             THEN /\ texGen' \in {texGen, texGen + 1}
                  /\ (env.gpu = {TRUE} /\ bufs[framePtr].dim # 0) => texGen' = texGen + 1
                  /\ texGen' = texGen + 1 =>
                        /\ ptr'["dynTex"]
                        /\ texDim' = bufs[framePtr].dim
                        /\ texContent' = EmptyMat
                  /\ texGen' = texGen =>
                        /\ ~ptr'["dynTex"] /\ ~ptr'["srv"]
                        /\ live' \cap {"dynTex", "srv"} = {}
             ELSE UNCHANGED <<texGen, texDim, ptr, texContent, live>>]_vars
    /\ []((mpc \in {"copy", "render"} /\ ptr["dynTex"]) =>
             Size(texDim) = Size(lastUp.mat.dim))
    /\ [][(MainStep("render") /\ ptr["srv"]) =>
             /\ presented'.dim = lastUp.mat.dim
             /\ presented'.vp = viewport(win, Size(lastUp.mat.dim))]_vars

\* C13 witness: a 1920 x 1080 frame was uploaded, then a 1280 x 720 frame: the
\* texture has been created twice and the last render used 1280 x 720.
C13_Witness ==
    /\ mpc = "loop"
    /\ texGen = 2
    /\ presented.mat.seq = 2
    /\ Size(presented.dim) = <<1280, 720>>
    /\ Size(texDim) = <<1280, 720>>
    /\ presented.vp = viewport(win, <<1280, 720>>)

\* uploadFrame is copying the frame whose pixels the texture already holds
\* (the frame of the previous iteration), complete both times and with or
\* without the overlay both times.
CopiesSameFrame ==
    /\ texContent.seq # 0
    /\ texContent.seq = bufs[framePtr].seq
    /\ texContent.text = bufs[framePtr].text
    /\ ~texContent.torn
    /\ ~bufs[framePtr].torn

\* What a toggle of the vsync flag leaves alone in any case: the toggle itself
\* happens in the key poll and touches neither the renderer nor the relay, an
\* upload recreates the texture and its view only for a frame of another
\* size, and nothing in the loop touches the swap chain, the render-target
\* view, the output size or tearingOk.
VsyncLeavesResources ==
    /\ [][g_vsync' # g_vsync =>
             (MainStep("keys") /\ UNCHANGED <<dxVars, live, relayVars, texGen>>)]_vars
    /\ [][(MainStep("upload") /\ ~SizeDiffers) => UNCHANGED <<ptr, texDim, live, texGen>>]_vars
    /\ [][InLoop =>
             /\ ptr'["swapChain"] = ptr["swapChain"]
             /\ ptr'["rtv"] = ptr["rtv"]
             /\ UNCHANGED <<win, tearingOk>>]_vars
    /\ [][(MainStep("render") /\ ptr["srv"]) =>
             presented'.args = presentArgs(g_vsync, tearingOk)]_vars

\* C14 as claimed: a toggle of the vsync flag changes only the arguments of
\* Present; in particular the pixels uploaded for a frame are what they were
\* when the same frame was uploaded before the toggle.
C14_ToggleChangesPresentOnly ==
    /\ VsyncLeavesResources
    /\ [][(MainStep("copy") /\ CopiesSameFrame) => texContent' = texContent]_vars

\* C14 as amended: a toggle of the vsync flag changes the arguments of Present
\* and, while the overlay is on, the overlay text drawn into the frame, which
\* names the vsync state; the captured picture that is uploaded, the texture,
\* its view, the swap chain, the render-target view and the cached sizes are
\* what they would be without the toggle.
C14_ToggleChangesPresentAndLabel ==
    /\ VsyncLeavesResources
    /\ [][(MainStep("copy") /\ CopiesSameFrame) =>
             /\ Picture(texContent') = Picture(texContent)
             /\ texContent'.text = texContent.text
             /\ texContent'.label # texContent.label => g_showFPS]_vars
    /\ [][(MainStep("draw") /\ g_showFPS /\ ~empty(bufs[framePtr])) =>
             bufs'[framePtr].label = IF g_vsync THEN "VSync ON" ELSE "VSync OFF"]_vars
    /\ [][(MainStep("draw") /\ ~g_showFPS) => bufs' = bufs]_vars

\* C14 witness: a frame was presented without vsync and with the overlay, the
\* flag was toggled, and the same frame has been uploaded again: same
\* texture, other overlay text.
C14_Witness ==
    /\ mpc = "render"
    /\ g_vsync
    /\ texGen = 1
    /\ presented.mat.seq = texContent.seq
    /\ presented.args.sync = 0
    /\ presented.mat.label = "VSync OFF"
    /\ texContent.label = "VSync ON"
    /\ Picture(texContent) = Picture(presented.mat)

\* C15: render presents with sync interval 1 and without the tearing flag when
\* the vsync flag (as it is at that call) is on, with sync interval 0 when it
\* is off, and then with the tearing flag exactly when the platform reported
\* tearing support at init.
C15_PresentPolicy ==
    /\ [][(MainStep("render") /\ ptr["srv"]) =>
             IF g_vsync
             THEN presented'.args = [sync |-> 1, tear |-> FALSE]
             ELSE presented'.args = [sync |-> 0, tear |-> (env.tear = {TRUE})]]_vars
    /\ [](InLoop => (tearingOk <=> env.tear = {TRUE}))

\* C15 witness: on a platform with tearing support a frame has been presented
\* with vsync on (interval 1, no tearing) after the flag was off at start.
C15_Witness ==
    /\ mpc = "loop"
    /\ env.tear = {TRUE}
    /\ tearingOk
    /\ g_vsync
    /\ presented.mat.seq = 1
    /\ presented.args = [sync |-> 1, tear |-> FALSE]

\* Lengths in units of 2^-14 pixel: what a float x (|x| < 2^13) is, rounded
\* down, and what the int n is.
FixUnit == 2^14

Fix(x) ==
    IF x.m = 0 THEN 0
    ELSE IF x.e + 14 >= 0 THEN x.m * 2^(x.e + 14)
    ELSE IF x.e + 14 <= -30 THEN (IF x.m < 0 THEN -1 ELSE 0)
    ELSE x.m \div 2^(-(x.e + 14))

\* a and b differ by less than 2^-10 pixel.
Near(a, b) == a - b <= 15 /\ b - a <= 15

\* n * d / q in units of 2^-14, rounded down (n * d < 2^24, the result < 2^27).
FixRatio(n, d, q) == ((n * d) \div q) * FixUnit + ((((n * d) % q) * FixUnit) \div q)

\* The exact letterbox for the output size W and the texture size T, in units
\* of 2^-14: the scale is min(W[1] / T[1], W[2] / T[2]); the axis on which the
\* scaled texture fills the output is the dominant one.
WidthDominant(W, T) == W[1] * T[2] <= W[2] * T[1]

HeightDominant(W, T) == W[2] * T[1] <= W[1] * T[2]

ExactW(W, T) == IF WidthDominant(W, T) THEN W[1] * FixUnit ELSE FixRatio(T[1], W[2], T[2])

ExactH(W, T) == IF HeightDominant(W, T) THEN W[2] * FixUnit ELSE FixRatio(T[2], W[1], T[1])

\* The viewport has the size texture x scale and is centered, all to within
\* 2^-10 pixel; the exact letterbox lies inside the output and has its margin
\* on the non-dominant axis only.
LetterboxNear(W, T, v) ==
    /\ Near(Fix(v.vpW), ExactW(W, T))
    /\ Near(Fix(v.vpH), ExactH(W, T))
    /\ Near(2 * Fix(v.vpX), W[1] * FixUnit - ExactW(W, T))
    /\ Near(2 * Fix(v.vpY), W[2] * FixUnit - ExactH(W, T))
    /\ Near(Fix(FSub(FSub(FInt(W[1]), v.vpX), v.vpW)), Fix(v.vpX))
    /\ Near(Fix(FSub(FSub(FInt(W[2]), v.vpY), v.vpH)), Fix(v.vpY))
    /\ ExactW(W, T) <= W[1] * FixUnit
    /\ ExactH(W, T) <= W[2] * FixUnit
    /\ ExactW(W, T) = W[1] * FixUnit \/ ExactH(W, T) = W[2] * FixUnit

\* The viewport as computed lies inside the output surface and has no margin
\* at all on the dominant axis.
LetterboxExact(W, T, v) ==
    /\ v.vpX.m >= 0
    /\ v.vpY.m >= 0
    /\ ~FLess(FInt(W[1]), FAdd(v.vpX, v.vpW))
    /\ ~FLess(FInt(W[2]), FAdd(v.vpY, v.vpH))
    /\ WidthDominant(W, T) => (v.vpX = FZero /\ v.vpW = FInt(W[1]))
    /\ HeightDominant(W, T) => (v.vpY = FZero /\ v.vpH = FInt(W[2]))

\* 1920 x 1080 into 1280 x 1024 gives 1280 x 720 at (0, 152).
LetterboxExample(W, T, v) ==
    (W = <<1280, 1024>> /\ T = <<1920, 1080>>) =>
        v = [vpX |-> FZero, vpY |-> FInt(152), vpW |-> FInt(1280), vpH |-> FInt(720)]

C17_ChannelReorder ==
    /\ pixel.stage = "texture" =>
          pixel.val = <<pixel.src[1], pixel.src[2], pixel.src[3], 255>>
    /\ pixel.stage = "target" =>
          pixel.val = [r |-> pixel.src[3], g |-> pixel.src[2], b |-> pixel.src[1], a |-> 255]

\* C17 witness: the pixel (B=10, G=20, R=30) has reached the back buffer as
\* (R=30, G=20, B=10), opaque.
C17_Witness ==
    /\ pixel.stage = "target"
    /\ pixel.src = <<10, 20, 30>>
    /\ pixel.val = [r |-> 30, g |-> 20, b |-> 10, a |-> 255]

\* C18: a frame of zero size is treated as no frame: the producer never
\* publishes an empty slot, and the main loop never passes an empty frame to
\* drawFPS, uploadFrame or render, so that ensureTexture is never called with
\* a zero width or height.
C18_EmptyFrameSkipped ==
    /\ [][(cpc = "commit2" /\ cpc' # cpc) => ~empty(bufs[latest'])]_vars
    /\ [][MainStep("chk") => (mpc' = "draw" => ~empty(bufs[framePtr]))]_vars
    /\ [][MainStep("upload") =>
             /\ ~empty(bufs[framePtr])
             /\ Size(bufs[framePtr].dim)[1] > 0
             /\ Size(bufs[framePtr].dim)[2] > 0]_vars

\* C19: when the pixel size of the output surface changes (the message pump
\* delivers the WM_SIZE), the engine recreates the render-target view and
\* takes the new size as the output size of its viewport, and leaves the
\* device, the context, the swap chain, the shaders, the sampler and the
\* texture as they are; from then on render works with the size the surface
\* has.
C19_ResizeRebuildsRTV ==
    /\ [][(MainStep("pump") /\ surface' # surface) =>
             /\ win' = surface'
             /\ ptr'["rtv"]
             /\ \A r \in GpuRes \ {"rtv"} : ptr'[r] = ptr[r]
             /\ UNCHANGED <<texDim, texContent, texGen, tearingOk>>]_vars
    /\ [][(MainStep("render") /\ ptr["srv"]) =>
             presented'.vp = viewport(surface, Size(texDim))]_vars

\* Rendering goes on: the main thread is in an iteration of its loop past the
\* loop test.
Rendering == mpc \in {"pump", "keys", "read", "chk", "draw", "upload", "copy", "render"}

\* C20: once the GPU has reported the device removed (Present did), the render
\* loop stops rendering: the next loop test leaves the loop, the engine is
\* released, and nothing is created again on the removed device.
C20_DeviceRemovedFatal ==
    /\ [](removed => ~Rendering)
    /\ [][(removed /\ MainStep("loop")) => mpc' = "release"]_vars
    /\ []((removed /\ mpc = "done") => live \cap GpuRes = {})
    /\ [][removed => texGen' = texGen]_vars

\* Where r stands in the sequence seq (0: nowhere).
Pos(seq, r) == IF \E i \in DOMAIN seq : seq[i] = r
               THEN CHOOSE i \in DOMAIN seq : seq[i] = r
               ELSE 0

\* C21: release() releases the GPU objects in strict reverse order of their
\* acquisition: when it has run (main is about to call vs.stop()), it has
\* released every object held, and of two objects the one acquired later
\* first.
C21_ReverseAcquisition ==
    mpc = "n_stop" =>
        /\ Len(rel) = Len(acq)
        /\ \A i, j \in DOMAIN rel :
              i < j => Pos(acq, rel[i]) > Pos(acq, rel[j])

\* C22: the texture is mapped only inside uploadFrame, between a successful
\* Map and the Unmap that follows the copy of the rows: a successful Map leads
\* to the copy, the copy ends with the one Unmap, uploadFrame has returned
\* only with the texture unmapped, render (draw and present) never runs on a
\* mapped texture, and what it presents is never a partially written frame.
C22_UploadAllOrNothing ==
    /\ [](mapped => mpc = "copy")
    /\ [][(MainStep("upload") /\ mapped') => (~mapped /\ mpc' = "copy")]_vars
    /\ [][MainStep("copy") => (mapped /\ ~mapped' /\ mpc' = "render")]_vars
    /\ [][MainStep("render") =>
             /\ ~mapped
             /\ ptr["srv"] => (presented'.mat = texContent /\ ~presented'.mat.torn)]_vars

\* Key k is found down by a poll that found it up the time before.
Pressed(k) == wasDown'[k] /\ ~wasDown[k]

\* C23: the control signals are edge-triggered. The three polls of an
\* iteration toggle g_showFPS / g_vsync, and clear g_running, exactly when the
\* key is down and was up at the previous poll, so a key that is held down
\* toggles nothing at the polls that follow; each flag follows its own key
\* only, the polls change nothing else, and nothing but a poll changes
\* g_showFPS, g_vsync or the remembered key states.
C23_EdgeTriggered ==
    /\ [][MainStep("keys") =>
             /\ (g_showFPS' # g_showFPS) <=> Pressed("fps")
             /\ (g_vsync' # g_vsync) <=> Pressed("vsync")
             /\ (g_running' # g_running) <=> (g_running /\ Pressed("exit"))
             /\ UNCHANGED <<relayVars, capVars, dxVars, live, framePtr, exitCode>>]_vars
    /\ [][~MainStep("keys") => UNCHANGED <<g_showFPS, g_vsync, wasDown>>]_vars

\* C23 witness: the overlay key has been down at two polls in a row, the
\* overlay is on, and the vsync flag is as it was at the start.
C23_Witness ==
    /\ mpc = "read"
    /\ prevDown["fps"]
    /\ wasDown["fps"]
    /\ g_showFPS
    /\ ~g_vsync
    /\ g_running

\* The producer is inside commitWrite().
InCommitWrite == cpc \in {"commit1", "commit2", "commit3"}

\* C24: slots are published round-robin. The k-th publish stores slot
\* (k - 1) mod 3 in latest; outside commitWrite(), once a slot is published,
\* writing is the slot after latest; and while the producer is inside
\* cap_.read on the slot the main thread got from its last tryRead(), two
\* further commitWrite() calls have completed after the publish that
\* tryRead() saw.
C24_RoundRobin ==
    /\ published >= 1 => latest = (published - 1) % NSlots
    /\ (~InCommitWrite /\ latest # NoSlot) => writing = (latest + 1) % NSlots
    /\ (framePtr # NoSlot /\ ReadingInto(framePtr)) => committed >= seen.pub + 2

\* C24 witness: the producer is back at the slot the main thread holds, just
\* two publishes after the one that published it.
C24_Witness ==
    /\ framePtr # NoSlot
    /\ ReadingInto(framePtr)
    /\ seen.pub >= 1
    /\ committed = seen.pub + 2
    /\ latest = (framePtr + 2) % NSlots

\* C25: writing is one of the three slots and latest is 'none' or one of
\* them; latest is 'none' exactly as long as nothing has been published and
\* never becomes 'none' again, so a tryRead() after one that returned a slot
\* returns a slot.
C25_IndexRanges ==
    /\ [](writing \in Slots /\ latest \in Slots \cup {NoSlot})
    /\ [](latest = NoSlot <=> published = 0)
    /\ [][latest # NoSlot => latest' # NoSlot]_vars
    /\ [][(MainStep("read") /\ framePtr # NoSlot) => framePtr' # NoSlot]_vars

\* C25 witness: the indices have gone round once (the fourth publish is in
\* slot 0 again) and tryRead() has returned a slot before and now.
C25_Witness ==
    /\ published = 4
    /\ latest = 0
    /\ writing = 1
    /\ mpc = "chk"
    /\ framePtr = 0
    /\ lastUp.slot # NoSlot

\* C26: a stop request is final and ends the loop after the iteration that
\* made it. g_running never goes back to true; with g_running false the main
\* thread is in the rest of that iteration, at the loop test, or past the
\* loop; it never enters the message pump of another iteration, and the loop
\* test it reaches leaves the loop for the cleanup; so uploadFrame / render
\* run at most once more.
C26_StopIsFinal ==
    /\ [][~g_running => ~g_running']_vars
    /\ [](~g_running => mpc # "pump")
    /\ [][(~g_running /\ MainStep("loop")) => mpc' = "release"]_vars
    /\ [][(~g_running /\ MainStep("render")) => mpc' = "loop"]_vars

\* C26 witness: the stop was requested while a frame was there: the rest of
\* the iteration has uploaded and rendered it and the loop test comes next.
C26_Witness ==
    /\ ~g_running
    /\ mpc = "loop"
    /\ presented.mat.seq >= 1
    /\ presented.mat.seq = lastUp.mat.seq
    /\ published = presented.mat.seq

\* The main thread is inside the stop() that ~VideoStream calls, after the
\* stop() main called itself.
InSecondStop == mpc \in {"d_stop", "d_join", "d_caprel"}

\* C27: stop() is idempotent. The second call finds the thread not joinable
\* (it is joined once, by the first call, and never becomes joinable again)
\* and leaves the stream as the first call left it: running_ false, the
\* thread joined, the adapter released, the relay untouched; and once the
\* first stop() has returned the capture thread has terminated.
C27_StopIdempotent ==
    /\ [](InSecondStop => (~running_ /\ "capThread" \notin live /\ "cap" \notin live))
    /\ []((StopReturned \/ InSecondStop) => cpc = "done")
    /\ [][InSecondStop => UNCHANGED <<running_, live, relayVars, capVars>>]_vars
    /\ [][("capThread" \notin live) => ("capThread" \notin live')]_vars

\* C27 witness: the second stop() is at its last statement, after a session
\* in which the capture thread published frames and was joined by the first.
C27_Witness ==
    /\ mpc = "d_caprel"
    /\ exitCode = 0
    /\ cpc = "done"
    /\ ~running_
    /\ published >= 2

\* C28: render() draws and presents only when there is a shader-resource
\* view, and whenever there is a view, there is the texture it views, and the
\* cached texW and texH are positive and are the size of that texture, also
\* after a creation of the texture has failed.
C28_ViewHasTexture ==
    /\ [][(MainStep("render") /\ ~ptr["srv"]) => UNCHANGED <<presented, removed>>]_vars
    /\ [](ptr["srv"] =>
             /\ ptr["dynTex"]
             /\ Size(texDim)[1] > 0
             /\ Size(texDim)[2] > 0
             /\ Size(texLive) = Size(texDim))

\* C28 witness: render is about to draw with a view that exists although a
\* creation of the texture had failed before.
C28_Witness ==
    /\ mpc = "render"
    /\ ptr["srv"]
    /\ "dynTex" \in failed
    /\ texLive = texDim
    /\ texDim # 0

====
